---- MODULE Spec2Model ----
(***************************************************************************)
(* Model of the polyarb backend (src/index.js): the arbitrage evaluator,   *)
(* the title matcher and the /api/arbitrage request cycle.                 *)
(*                                                                         *)
(* Numbers are JavaScript doubles.  A double d is kept exactly as a pair   *)
(* (c, e) of integers meaning                                              *)
(*            d = c/100 + e / (100 * 2^59)                                 *)
(* c is the value in cents and e the binary rounding error in units of     *)
(* 2^-59 / 100.  Every double the evaluator meets for prices given in      *)
(* whole cents is a multiple of 2^-59, so e is always an integer, and      *)
(* Round below is IEEE-754 round-to-nearest-even onto the 53-bit grid.     *)
(***************************************************************************)
EXTENDS Integers, Sequences, FiniteSets, TLC

VARIABLES
    evPoly,      \* SpecEval: first argument of calculateArbitrage
    evKalshi,    \* SpecEval: second argument of calculateArbitrage
    evOut,       \* SpecEval: result of calculateArbitrage(evPoly, evKalshi)
    evSwap,      \* SpecEval: result of calculateArbitrage(evKalshi, evPoly)
    fmMatch,     \* SpecForMatch: the match handed to calculateArbitrageForMatch
    fmOut,       \* SpecForMatch: what it returned (<<>> is null)
    fmDone,      \* SpecForMatch: the call has returned
    mtTitle1,    \* SpecMatcher: title of the first market
    mtTitle2,    \* SpecMatcher: title of the second market
    mtAB,        \* SpecMatcher: compareMarkets(first, second)
    mtBA,        \* SpecMatcher: compareMarkets(second, first)
    pc,          \* Spec: where the /api/arbitrage handler stands
    polyFetch,   \* Spec: state of fetchAllPolymarketEvents
    kalshiFetch, \* Spec: state of fetchAllKalshiEvents
    matches,     \* Spec: what findAlgorithmMatches returned
    opps,        \* Spec: arbitrageOpportunities, one slot per match
    enrich,      \* Spec: per slot, the getPerplexityAnalysis call
    response     \* Spec: what the handler sent

evalVars == <<evPoly, evKalshi, evOut, evSwap>>

fmVars == <<fmMatch, fmOut, fmDone>>

mtVars == <<mtTitle1, mtTitle2, mtAB, mtBA>>

cycleVars == <<pc, polyFetch, kalshiFetch, matches, opps, enrich, response>>

vars == <<evalVars, fmVars, mtVars, cycleVars>>

(***************************************************************************)
(* IEEE-754 binary64 arithmetic on (c, e) pairs                            *)
(***************************************************************************)
NaN == [nan |-> TRUE, c |-> 0, e |-> 0]

Num(c, e) == [nan |-> FALSE, c |-> c, e |-> e]

RECURSIVE Pow2(_)
Pow2(n) == IF n = 0 THEN 1 ELSE 2 * Pow2(n - 1)

RECURSIVE Pow2Mod100(_)
Pow2Mod100(n) == IF n = 0 THEN 1 ELSE (2 * Pow2Mod100(n - 1)) % 100

AtLeast(L, R, e) == L > R \/ (L = R /\ e >= 0)

\* c/100 + e/(100*2^59) >= 2^ex, for c > 0
AtLeastPow2(c, e, ex) ==
    IF ex <= 0 THEN AtLeast(c * Pow2(-ex), 100, e)
    ELSE AtLeast(c, 100 * Pow2(ex), e)

\* the binade of a positive value: 2^ex <= value < 2^(ex+1)
Exponent(c, e) ==
    CHOOSE ex \in -7..8 : AtLeastPow2(c, e, ex) /\ ~AtLeastPow2(c, e, ex + 1)

\* x2 is the exact value modulo two ulps and M one ulp, in units of e: the
\* signed distance from the nearest grid point, a tie going to the even one
Remainder(x2, M) ==
    IF 2 * x2 <= M THEN x2
    ELSE IF 2 * x2 < 3 * M THEN x2 - M
    ELSE x2 - 2 * M

\* the exact value (c, e), c > 0, rounded to the grid of ulp 2^(j-59);
\* c * 2^59 modulo two ulps is 2^(j+1) * ((c * 2^(58-j)) mod 100)
RoundToUlp(c, e, j) ==
    Num(c, e - Remainder(
                (Pow2(j + 1) * (((c % 100) * Pow2Mod100(58 - j)) % 100) + e)
                    % (200 * Pow2(j)),
                100 * Pow2(j)))

\* round-to-nearest-even of the exact value (c, e), c > 0, to 53 bits: in
\* the binade of exponent ex the ulp is 2^(ex-52)
RoundPos(c, e) == RoundToUlp(c, e, Exponent(c, e) + 7)

Negate(x) == Num(-(x.c), -(x.e))

Round(c, e) ==
    IF c = 0 THEN Num(0, e)
    ELSE IF c > 0 THEN RoundPos(c, e)
    ELSE Negate(RoundPos(-c, -e))

\* the double nearest to c/100: parseFloat("0.cc") and cc / 100
FromCents(c) == Round(c, 0)

FAdd(x, y) == IF x.nan \/ y.nan THEN NaN ELSE Round(x.c + y.c, x.e + y.e)

FSub(x, y) == IF x.nan \/ y.nan THEN NaN ELSE Round(x.c - y.c, x.e - y.e)

FMul100(x) == IF x.nan THEN NaN ELSE Round(100 * x.c, 100 * x.e)

\* x > y on doubles; false when either is NaN
FGreater(x, y) ==
    /\ ~x.nan
    /\ ~y.nan
    /\ (x.c > y.c \/ (x.c = y.c /\ x.e > y.e))

FLess(x, y) == FGreater(y, x)

\* x === y on doubles; NaN equals nothing
FEq(x, y) == ~x.nan /\ ~y.nan /\ x.c = y.c /\ x.e = y.e

\* Math.max of two doubles
FMax(x, y) == IF x.nan \/ y.nan THEN NaN ELSE IF FGreater(y, x) THEN y ELSE x

FOne == Num(100, 0)

(***************************************************************************)
(* calculateArbitrage                                                      *)
(***************************************************************************)
BuyYesPoly == "Buy Yes on Polymarket, No on Kalshi"

BuyNoPoly == "Buy No on Polymarket, Yes on Kalshi"

MIN_ARBITRAGE == FromCents(1)

MAX_ARBITRAGE == FromCents(50)

JsArray(items) == [isArray |-> TRUE, items |-> items]

NotAnArray == [isArray |-> FALSE, items |-> <<>>]

Threw == [threw |-> TRUE, hasArbitrage |-> FALSE, amount |-> NaN, strategy |-> "none"]

Pending == [threw |-> FALSE, hasArbitrage |-> FALSE, amount |-> NaN, strategy |-> "pending"]

HasArbitrage(bestArbitrage) ==
    FGreater(bestArbitrage, MIN_ARBITRAGE) /\ FLess(bestArbitrage, MAX_ARBITRAGE)

\* a variant that names the second combination when the margins are equal
StrategyFavouringSecond(bestArbitrage, arbitrage1, arbitrage2) ==
    IF FEq(bestArbitrage, arbitrage2) THEN BuyNoPoly ELSE BuyYesPoly

Strategy(bestArbitrage, arbitrage1, arbitrage2) ==
    IF FEq(bestArbitrage, arbitrage1) THEN BuyYesPoly ELSE BuyNoPoly

\* Buy Yes on Poly, No on Kalshi
Arbitrage1(polyYes, kalshiNo) == FSub(FOne, FAdd(polyYes, kalshiNo))

\* Buy No on Poly, Yes on Kalshi
Arbitrage2(polyNo, kalshiYes) == FSub(FOne, FAdd(polyNo, kalshiYes))

\* the object calculateArbitrage returns
ArbitrageResult(bestArbitrage, arbitrage1, arbitrage2) ==
    [threw        |-> FALSE,
     hasArbitrage |-> HasArbitrage(bestArbitrage),
     amount       |-> bestArbitrage,
     strategy     |-> Strategy(bestArbitrage, arbitrage1, arbitrage2)]

BestOf(arbitrage1, arbitrage2) ==
    ArbitrageResult(FMax(arbitrage1, arbitrage2), arbitrage1, arbitrage2)

\* polyPrices = [polyYes, polyNo], kalshiPrices = [kalshiYes, kalshiNo]
calculateArbitrage(polyPrices, kalshiPrices) ==
    IF \/ ~polyPrices.isArray
       \/ ~kalshiPrices.isArray
       \/ Len(polyPrices.items) # 2
       \/ Len(kalshiPrices.items) # 2
    THEN Threw
    ELSE BestOf(Arbitrage1(polyPrices.items[1], kalshiPrices.items[2]),
                Arbitrage2(polyPrices.items[2], kalshiPrices.items[1]))

(***************************************************************************)
(* Strings are sequences of one-character strings.  The alphabet is the    *)
(* ASCII letters, digits, "_", the space and punctuation; the space is the *)
(* only whitespace.                                                        *)
(***************************************************************************)
Upper == <<"A","B","C","D","E","F","G","H","I","J","K","L","M","N","O","P","Q","R","S","T","U","V","W","X","Y","Z">>

Lower == <<"a","b","c","d","e","f","g","h","i","j","k","l","m","n","o","p","q","r","s","t","u","v","w","x","y","z">>

ToLowerChar(ch) ==
    IF \E i \in DOMAIN Upper : Upper[i] = ch
    THEN Lower[CHOOSE i \in DOMAIN Upper : Upper[i] = ch]
    ELSE ch

\* String.prototype.toLowerCase
toLowerCase(s) == [i \in 1..Len(s) |-> ToLowerChar(s[i])]

\* \s
IsSpace(ch) == ch = " "

\* \w
IsWordChar(ch) ==
    \/ \E i \in DOMAIN Upper : Upper[i] = ch \/ Lower[i] = ch
    \/ ch \in {"0","1","2","3","4","5","6","7","8","9"}
    \/ ch = "_"

SetMin(S) == CHOOSE x \in S : \A y \in S : x <= y

SetMax(S) == CHOOSE x \in S : \A y \in S : x >= y

NonSpaces(s) == {i \in 1..Len(s) : ~IsSpace(s[i])}

\* String.prototype.trim
trim(s) ==
    IF NonSpaces(s) = {} THEN <<>>
    ELSE SubSeq(s, SetMin(NonSpaces(s)), SetMax(NonSpaces(s)))

\* String.prototype.includes
Includes(s, part) ==
    \E i \in 1..(Len(s) - Len(part) + 1) : SubSeq(s, i, i + Len(part) - 1) = part

Spaces(s) == {i \in 1..Len(s) : s[i] = " "}

\* s.split(' '): the pieces between single spaces, empty pieces kept
RECURSIVE SplitSpace(_)
SplitAt(s, i) == <<SubSeq(s, 1, i - 1)>> \o SplitSpace(SubSeq(s, i + 1, Len(s)))

SplitSpace(s) == IF Spaces(s) = {} THEN <<s>> ELSE SplitAt(s, SetMin(Spaces(s)))

RECURSIVE JoinSpace(_)
JoinSpace(words) ==
    IF Len(words) = 0 THEN <<>>
    ELSE IF Len(words) = 1 THEN words[1]
    ELSE words[1] \o <<" ">> \o JoinSpace(Tail(words))

\* a title as the provider sent it: a string, or missing
StringTitle(chars) == [kind |-> "string", chars |-> chars]

UndefinedTitle == [kind |-> "undefined", chars |-> <<>>]

(***************************************************************************)
(* extractKeywords, getMarketType, compareMarkets                          *)
(***************************************************************************)
StopWords ==
    {<<"w","i","l","l">>,
     <<"t","h","e">>,
     <<"b","e">>,
     <<"i","n">>,
     <<"b","y">>,
     <<"a","t">>,
     <<"o","n">>,
     <<"f","o","r">>,
     <<"o","f">>,
     <<"t","o">>,
     <<"a","n","d">>,
     <<"o","r">>,
     <<"a">>,
     <<"a","n">>}

\* .replace(/[^\w\s]/g, '')
StripPunctuation(s) == SelectSeq(s, LAMBDA ch : IsWordChar(ch) \/ IsSpace(ch))

\* .replace(/\b(will|the|...|a|an)\b/g, '') on a string of word characters
\* and spaces: every whole word that is a stop word becomes empty
BlankStopWords(words) ==
    [i \in 1..Len(words) |-> IF words[i] \in StopWords THEN <<>> ELSE words[i]]

RemoveStopWords(s) == JoinSpace(BlankStopWords(SplitSpace(s)))

\* cleanTitle.split(' ').filter(word => word.length > 2)
KeyTerms(cleanTitle) == SelectSeq(SplitSpace(cleanTitle), LAMBDA word : Len(word) > 2)

extractKeywords(title) ==
    KeyTerms(trim(RemoveStopWords(StripPunctuation(toLowerCase(title)))))

MarketTypes ==
    <<
        [type |-> "crypto", keywords |-> <<
            <<"b","i","t","c","o","i","n">>,
            <<"b","t","c">>,
            <<"e","t","h","e","r","e","u","m">>,
            <<"e","t","h">>,
            <<"c","r","y","p","t","o">>>>],
        [type |-> "politics", keywords |-> <<
            <<"e","l","e","c","t","i","o","n">>,
            <<"p","r","e","s","i","d","e","n","t">>,
            <<"s","e","n","a","t","e">>,
            <<"h","o","u","s","e">>,
            <<"c","o","n","g","r","e","s","s">>,
            <<"d","e","m","o","c","r","a","t">>,
            <<"r","e","p","u","b","l","i","c","a","n">>,
            <<"t","r","u","m","p">>,
            <<"b","i","d","e","n">>>>],
        [type |-> "sports", keywords |-> <<
            <<"w","i","n">>,
            <<"l","e","a","g","u","e">>,
            <<"c","h","a","m","p","i","o","n","s","h","i","p">>,
            <<"c","u","p">>,
            <<"g","a","m","e">>,
            <<"m","a","t","c","h">>>>],
        [type |-> "finance", keywords |-> <<
            <<"r","a","t","e">>,
            <<"f","e","d">>,
            <<"i","n","t","e","r","e","s","t">>,
            <<"m","a","r","k","e","t">>,
            <<"p","r","i","c","e">>,
            <<"i","n","d","e","x">>>>]
    >>

TypeHits(t) ==
    {i \in DOMAIN MarketTypes :
        \E k \in DOMAIN MarketTypes[i].keywords : Includes(t, MarketTypes[i].keywords[k])}

FirstType(hits) == IF hits = {} THEN "other" ELSE MarketTypes[SetMin(hits)].type

\* the first type, in table order, one of whose keywords the title contains
getMarketType(title) == FirstType(TypeHits(toLowerCase(title)))

Bigrams(s) == [i \in 1..(Len(s) - 1) |-> <<s[i], s[i + 1]>>]

\* the n-th occurrence of a bigram in the second string counts while the
\* first string has at least n occurrences of it
IntersectionSize(firstBigrams, secondBigrams) ==
    Cardinality({i \in DOMAIN secondBigrams :
        Cardinality({j \in 1..i : secondBigrams[j] = secondBigrams[i]})
            <= Cardinality({j \in DOMAIN firstBigrams :
                               firstBigrams[j] = secondBigrams[i]})})

Dice(first, second) ==
    IF first = second THEN [num |-> 1, den |-> 1]
    ELSE IF Len(first) < 2 \/ Len(second) < 2 THEN [num |-> 0, den |-> 1]
    ELSE [num |-> 2 * IntersectionSize(Bigrams(first), Bigrams(second)),
          den |-> Len(first) + Len(second) - 2]

\* stringSimilarity.compareTwoStrings: the Dice coefficient of the two
\* strings' character bigrams, whitespace removed, as the fraction num/den
compareTwoStrings(first, second) ==
    Dice(SelectSeq(first, LAMBDA ch : ~IsSpace(ch)),
         SelectSeq(second, LAMBDA ch : ~IsSpace(ch)))

MIN_COMMON_KEYWORDS == 2

Max2(a, b) == IF a >= b THEN a ELSE b

\* keywords1.filter(word => keywords2.includes(word))
CommonKeywords(keywords1, keywords2) ==
    SelectSeq(keywords1, LAMBDA word : \E i \in DOMAIN keywords2 : keywords2[i] = word)

\* (keywordScore * 0.5) + (similarity * 0.5) as an exact fraction, where
\* keywordScore is nCommon / nMax; 0/0 is NaN.  On every title pair within
\* the model's bounds the doubles the code computes compare with 0.65 as
\* these exact fractions do.
Confidence(nCommon, nMax, similarity) ==
    IF nMax = 0 THEN [nan |-> TRUE, num |-> 0, den |-> 1]
    ELSE [nan |-> FALSE,
          num |-> nCommon * similarity.den + similarity.num * nMax,
          den |-> 2 * nMax * similarity.den]

\* confidence > 0.65
AboveThreshold(confidence) ==
    ~confidence.nan /\ 20 * confidence.num > 13 * confidence.den

TypeMismatch ==
    [isMatch |-> FALSE, confidence |-> [nan |-> FALSE, num |-> 0, den |-> 1],
     commonKeywords |-> <<>>, sameType |-> FALSE]

MatchResult(commonKeywords, confidence) ==
    [isMatch |-> AboveThreshold(confidence)
                    /\ Len(commonKeywords) >= MIN_COMMON_KEYWORDS,
     confidence |-> confidence,
     commonKeywords |-> commonKeywords,
     sameType |-> TRUE]

ScoreKeywords(keywords1, keywords2, commonKeywords, similarity) ==
    MatchResult(commonKeywords,
                Confidence(Len(commonKeywords),
                           Max2(Len(keywords1), Len(keywords2)), similarity))

CompareKeywords(keywords1, keywords2, similarity) ==
    ScoreKeywords(keywords1, keywords2, CommonKeywords(keywords1, keywords2), similarity)

CompareTitles(title1, title2) ==
    IF getMarketType(title1) # getMarketType(title2) THEN TypeMismatch
    ELSE CompareKeywords(extractKeywords(title1), extractKeywords(title2),
                         compareTwoStrings(title1, title2))

\* market1, market2: markets whose title is a string (getMarketType has
\* already read it when the handler built the market)
compareMarkets(market1, market2) ==
    CompareTitles(toLowerCase(market1.title.chars), toLowerCase(market2.title.chars))

(***************************************************************************)
(* calculateArbitrageForMatch                                              *)
(*                                                                         *)
(* outcomePrices is the provider's JSON string: kind "array" with its      *)
(* elements (legs), or "nonarray", "unparseable", "missing".  A leg is a   *)
(* decimal in whole cents (ok) or text that parseFloat turns into NaN.     *)
(* yes_bid is a number of cents, or undefined.  null is <<>>, a returned   *)
(* opportunity x is <<x>>.                                                 *)
(***************************************************************************)
Null == <<>>

Some(x) == <<x>>

Leg(cents) == [ok |-> TRUE, cents |-> cents]

BadLeg == [ok |-> FALSE, cents |-> 0]

PriceArray(legs) == [kind |-> "array", legs |-> legs]

YesBid(v) == [defined |-> TRUE, v |-> v]

NoYesBid == [defined |-> FALSE, v |-> 0]

\* parseFloat(price)
ParsePrice(leg) == IF leg.ok THEN FromCents(leg.cents) ELSE NaN

\* items[i]; a missing element is undefined, NaN in arithmetic
ElementAt(items, i) == IF i <= Len(items) THEN items[i] ELSE NaN

\* [yes_bid / 100, (100 - yes_bid) / 100]
KalshiPrices(yes_bid) ==
    IF yes_bid.defined
    THEN <<FromCents(yes_bid.v), FromCents(100 - yes_bid.v)>>
    ELSE <<NaN, NaN>>

ParsedPrices(legs) == [i \in 1..Len(legs) |-> ParsePrice(legs[i])]

\* the opportunity object built from an accepted arbitrage
Opportunity(match, polyYes, polyNo, kalshiPrices, arbitrage) ==
    [polymarket |->
        [title  |-> match.polymarket.market.question,
         prices |-> [yes |-> polyYes, no |-> polyNo],
         volume |-> match.polymarket.market.volume24hr],
     kalshi |->
        [title  |-> match.kalshi.market.title,
         prices |-> [yes |-> kalshiPrices[1], no |-> kalshiPrices[2]],
         volume |-> match.kalshi.market.dollar_recent_volume],
     potentialProfit |-> FMul100(arbitrage.amount),
     strategy |-> arbitrage.strategy,
     priceDifference |->
        [yes |-> FMul100(FSub(polyYes, kalshiPrices[1])),
         no  |-> FMul100(FSub(polyNo, kalshiPrices[2]))],
     source |-> match.source,
     analysis |-> "unset"]

OpportunityOrNull(match, polyYes, polyNo, kalshiPrices, arbitrage) ==
    IF arbitrage.threw THEN Null                       \* caught: return null
    ELSE IF ~arbitrage.hasArbitrage THEN Null
    ELSE Some(Opportunity(match, polyYes, polyNo, kalshiPrices, arbitrage))

EvaluateLegs(match, polyYes, polyNo, kalshiPrices) ==
    OpportunityOrNull(match, polyYes, polyNo, kalshiPrices,
        calculateArbitrage(JsArray(<<polyYes, polyNo>>), JsArray(kalshiPrices)))

EvaluatePrices(match, polyPrices, kalshiPrices) ==
    EvaluateLegs(match, ElementAt(polyPrices, 1), ElementAt(polyPrices, 2), kalshiPrices)

calculateArbitrageForMatch(match) ==
    IF match.polymarket.market.outcomePrices.kind # "array"
    THEN Null                                          \* caught: return null
    ELSE EvaluatePrices(match,
                        ParsedPrices(match.polymarket.market.outcomePrices.legs),
                        KalshiPrices(match.kalshi.market.yes_bid))

(***************************************************************************)
(* The two fetch loops                                                     *)
(***************************************************************************)
MAX_MARKETS == 1000

MAX_EVENTS == 1000

limit == 100

KamalaHarris == <<"k","a","m","a","l","a"," ","h","a","r","r","i","s">>

Take(s, n) == SubSeq(s, 1, IF n < Len(s) THEN n ELSE Len(s))

\* a JSON string or any other truthy value
Truthy(outcomePrices) == outcomePrices.kind # "missing"

\* market.question.toLowerCase() throws on a question that is no string
PolyFilterThrows(markets) ==
    \E i \in DOMAIN markets :
        Truthy(markets[i].outcomePrices) /\ markets[i].question.kind # "string"

PolyValid(market) ==
    /\ Truthy(market.outcomePrices)
    /\ ~Includes(toLowerCase(market.question.chars), KamalaHarris)
    /\ market.volume24hr > 1000

\* allMarkets after the push: the loop ends at MAX_MARKETS, else offset
\* moves on by limit
PolyPushed(f, allMarkets) ==
    IF Len(allMarkets) >= MAX_MARKETS
    THEN [f EXCEPT !.all = allMarkets, !.running = FALSE]
    ELSE [f EXCEPT !.all = allMarkets, !.at = f.at + limit]

\* one turn of the while loop of fetchAllPolymarketEvents with the page the
\* provider answered; f is the loop's state
PolyPage(f, markets) ==
    IF Len(markets) = 0
    THEN [f EXCEPT !.running = FALSE]
    ELSE IF PolyFilterThrows(markets)
    THEN [f EXCEPT !.running = FALSE, !.failed = "filter"]
    ELSE PolyPushed(f, f.all \o Take(SelectSeq(markets, PolyValid),
                                     MAX_MARKETS - Len(f.all)))

\* the catch of a failed request: the loop ends with what it has
FetchError(f) == [f EXCEPT !.running = FALSE, !.failed = "fetch"]

KalshiEventValid(event) ==
    /\ event.hasMarkets
    /\ Len(event.markets) > 0
    /\ \E i \in DOMAIN event.markets : event.markets[i].yes_bid.defined

\* f.at counts the pages taken so far: pageNumber - 1
KalshiPushed(f, allEvents) ==
    IF Len(allEvents) >= MAX_EVENTS
    THEN [f EXCEPT !.all = allEvents, !.running = FALSE]
    ELSE [f EXCEPT !.all = allEvents, !.at = f.at + 1]

\* one turn of the while loop of fetchAllKalshiEvents
KalshiPage(f, events) ==
    IF Len(events) = 0
    THEN [f EXCEPT !.running = FALSE]
    ELSE KalshiPushed(f, f.all \o Take(SelectSeq(events, KalshiEventValid),
                                       MAX_EVENTS - Len(f.all)))

(***************************************************************************)
(* The handler of GET /api/arbitrage                                       *)
(***************************************************************************)
RECURSIVE Flatten(_)
Flatten(ss) == IF Len(ss) = 0 THEN <<>> ELSE Head(ss) \o Flatten(Tail(ss))

Contains(xs, x) == \E i \in DOMAIN xs : xs[i] = x

AppendNew(front, x) == IF Contains(front, x) THEN front ELSE Append(front, x)

\* Array.from(new Set(xs.map(JSON.stringify))).map(JSON.parse): the first
\* of equal entries stays
RECURSIVE DedupeExact(_)
DedupeExact(xs) ==
    IF Len(xs) = 0 THEN <<>>
    ELSE AppendNew(DedupeExact(SubSeq(xs, 1, Len(xs) - 1)), xs[Len(xs)])

\* title?.toLowerCase() and getMarketType(title) throw a TypeError on a
\* title that is a number, getMarketType(title) on one that is missing
TitleThrows(title) == title.kind # "string"

NotKamala(title) == ~Includes(toLowerCase(title.chars), KamalaHarris)

Built(markets) == [threw |-> FALSE, markets |-> markets]

BuildThrew == [threw |-> TRUE, markets |-> <<>>]

PolyEntries(shown) ==
    [i \in 1..Len(shown) |->
        [title  |-> shown[i].question,
         type   |-> getMarketType(shown[i].question.chars),
         market |-> shown[i]]]

PolyBuild(kept) ==
    IF \E i \in DOMAIN kept : TitleThrows(kept[i].question) THEN BuildThrew
    ELSE Built(DedupeExact(PolyEntries(
             SelectSeq(kept, LAMBDA market : NotKamala(market.question)))))

\* polymarketData is [{markets: allMarkets}]
PolymarketMarkets(allMarkets) ==
    PolyBuild(SelectSeq(allMarkets, LAMBDA market : Truthy(market.outcomePrices)))

KalshiEntries(shown) ==
    [i \in 1..Len(shown) |->
        [title  |-> shown[i].title,
         type   |-> getMarketType(shown[i].title.chars),
         market |-> shown[i]]]

KalshiBuild(kept) ==
    IF \E i \in DOMAIN kept : TitleThrows(kept[i].title) THEN BuildThrew
    ELSE Built(DedupeExact(KalshiEntries(
             SelectSeq(kept, LAMBDA market : NotKamala(market.title)))))

\* event?.markets || []
EventMarkets(allEvents) ==
    [i \in 1..Len(allEvents) |->
        IF allEvents[i].hasMarkets THEN allEvents[i].markets ELSE <<>>]

KalshiMarkets(allEvents) ==
    KalshiBuild(SelectSeq(Flatten(EventMarkets(allEvents)),
                          LAMBDA market : market.yes_bid.defined))

\* the matches of one Polymarket market, in the order of the Kalshi list
MatchRecords(polyMarket, matching) ==
    [i \in 1..Len(matching) |->
        [polymarket |-> polyMarket, kalshi |-> matching[i], source |-> "algorithm"]]

MatchesOf(polyMarket, kalshiMarkets) ==
    MatchRecords(polyMarket,
        SelectSeq(SelectSeq(kalshiMarkets, LAMBDA k : k.type = polyMarket.type),
                  LAMBDA k : compareMarkets(polyMarket, k).isMatch))

findAlgorithmMatches(polymarketMarkets, kalshiMarkets) ==
    Flatten([i \in 1..Len(polymarketMarkets) |->
                MatchesOf(polymarketMarkets[i], kalshiMarkets)])

\* the handler from the end of the fetches to the first await of an
\* enrichment call: the markets, the matches and one slot per match
EvaluatedMatches(found) ==
    [threw   |-> FALSE,
     matches |-> found,
     opps    |-> [i \in 1..Len(found) |-> calculateArbitrageForMatch(found[i])]]

EvaluatedMarkets(poly, kalshi) ==
    IF poly.threw \/ kalshi.threw
    THEN [threw |-> TRUE, matches |-> <<>>, opps |-> <<>>]
    ELSE EvaluatedMatches(findAlgorithmMatches(poly.markets, kalshi.markets))

Evaluated(allMarkets, allEvents) ==
    EvaluatedMarkets(PolymarketMarkets(allMarkets), KalshiMarkets(allEvents))

\* opp.polymarket.title.toLowerCase().trim()
NormalizedTitle(opp) == trim(toLowerCase(opp.polymarket.title.chars))

\* arbitrageOpportunities.filter(opp => opp && opp.polymarket && opp.kalshi)
Unwrapped(filled) == [i \in 1..Len(filled) |-> filled[i][1]]

ValidOpportunities(slots) == Unwrapped(SelectSeq(slots, LAMBDA slot : slot # Null))

\* the filter over seenTitles: an opportunity stays when no earlier one has
\* its normalized Polymarket title
SeenTitle(front, opp) ==
    \E i \in DOMAIN front : NormalizedTitle(front[i]) = NormalizedTitle(opp)

\* a variant that keeps the last opportunity of each normalized title
LastOfTitle(valid) ==
    {i \in DOMAIN valid :
        \A j \in DOMAIN valid :
            j > i => NormalizedTitle(valid[j]) # NormalizedTitle(valid[i])}

NthOf(keep, k) == CHOOSE i \in keep : Cardinality({j \in keep : j <= i}) = k

PickFrom(valid, keep) == [k \in 1..Cardinality(keep) |-> valid[NthOf(keep, k)]]

UniqueKeepingLast(valid) == PickFrom(valid, LastOfTitle(valid))

RECURSIVE UniqueOpportunities(_)
KeepUnseen(front, opp) ==
    IF SeenTitle(front, opp) THEN UniqueOpportunities(front)
    ELSE Append(UniqueOpportunities(front), opp)

UniqueOpportunities(valid) ==
    IF Len(valid) = 0 THEN <<>>
    ELSE KeepUnseen(SubSeq(valid, 1, Len(valid) - 1), valid[Len(valid)])

\* the comparator (a, b) => b.potentialProfit - a.potentialProfit
CompareProfit(a, b) == FSub(b.potentialProfit, a.potentialProfit)

Positive(d) == ~d.nan /\ (d.c > 0 \/ (d.c = 0 /\ d.e > 0))

\* x goes before the first element the comparator puts after it
InsertAt(sorted, x, at) ==
    SubSeq(sorted, 1, at - 1) \o <<x>> \o SubSeq(sorted, at, Len(sorted))

FirstOrEnd(after, n) == IF after = {} THEN n + 1 ELSE SetMin(after)

\* a variant that puts x before the elements of equal profit
InsertBeforeEqual(sorted, x) ==
    InsertAt(sorted, x,
        FirstOrEnd({i \in DOMAIN sorted : ~Positive(CompareProfit(x, sorted[i]))},
                   Len(sorted)))

InsertByProfit(sorted, x) ==
    InsertAt(sorted, x,
        FirstOrEnd({i \in DOMAIN sorted : Positive(CompareProfit(sorted[i], x))},
                   Len(sorted)))

\* Array.prototype.sort with that comparator: a stable sort
RECURSIVE SortByProfit(_)
SortByProfit(xs) ==
    IF Len(xs) = 0 THEN <<>>
    ELSE InsertByProfit(SortByProfit(SubSeq(xs, 1, Len(xs) - 1)), xs[Len(xs)])

\* the body of the 200 response
Aggregated(slots) == SortByProfit(UniqueOpportunities(ValidOpportunities(slots)))

(***************************************************************************)
(* Idle values of the variables a specification does not use               *)
(***************************************************************************)
EvalIdle ==
    /\ evPoly = NotAnArray
    /\ evKalshi = NotAnArray
    /\ evOut = Pending
    /\ evSwap = Pending

FmIdle ==
    /\ fmMatch = <<>>
    /\ fmOut = Null
    /\ fmDone = FALSE

NoComparison ==
    [isMatch |-> FALSE, confidence |-> [nan |-> FALSE, num |-> 0, den |-> 1],
     commonKeywords |-> <<>>, sameType |-> FALSE, done |-> FALSE]

MtIdle ==
    /\ mtTitle1 = <<>>
    /\ mtTitle2 = <<>>
    /\ mtAB = NoComparison
    /\ mtBA = NoComparison

FetchStart == [running |-> TRUE, failed |-> "no", at |-> 0, all |-> <<>>]

NoResponse == [sent |-> FALSE, status |-> 0, body |-> <<>>]

CycleIdle ==
    /\ pc = "idle"
    /\ polyFetch = FetchStart
    /\ kalshiFetch = FetchStart
    /\ matches = <<>>
    /\ opps = <<>>
    /\ enrich = <<>>
    /\ response = NoResponse

(***************************************************************************)
(* SpecEval: calculateArbitrage applied to bounded inputs, in both orders  *)
(***************************************************************************)
EvalStep == 20

\* prices in whole cents: a grid over [0,1] plus the cents next to the
\* acceptance band's edges
EvalCents == {c \in 0..100 : c % EvalStep = 0} \cup {1, 49, 51, 99}

\* values outside the documented precondition
InvalidPrices == {NaN, FromCents(-30), FromCents(120)}

EvalPrices == {FromCents(c) : c \in EvalCents} \cup InvalidPrices

EvalArgs ==
    {JsArray(<<y, n>>) : y \in EvalPrices, n \in EvalPrices}
        \cup {NotAnArray, JsArray(<<FromCents(40)>>),
              JsArray(<<FromCents(40), FromCents(50), FromCents(10)>>)}

InitEval ==
    /\ evPoly \in EvalArgs
    /\ evKalshi \in EvalArgs
    /\ evOut = Pending
    /\ evSwap = Pending
    /\ FmIdle
    /\ MtIdle
    /\ CycleIdle

Evaluate ==
    /\ evOut = Pending
    /\ evOut' = calculateArbitrage(evPoly, evKalshi)
    /\ UNCHANGED <<evPoly, evKalshi, evSwap, fmVars, mtVars, cycleVars>>

EvaluateSwapped ==
    /\ evSwap = Pending
    /\ evSwap' = calculateArbitrage(evKalshi, evPoly)
    /\ UNCHANGED <<evPoly, evKalshi, evOut, fmVars, mtVars, cycleVars>>

NextEval == Evaluate \/ EvaluateSwapped

SpecEval == InitEval /\ [][NextEval]_vars

(***************************************************************************)
(* SpecForMatch: calculateArbitrageForMatch applied to one match           *)
(***************************************************************************)
MatchStep == 10

MatchCents == {c \in 0..100 : c % MatchStep = 0} \cup {1, 49, 51, 99}

MatchLegs == {Leg(c) : c \in MatchCents \cup {-30, 120}} \cup {BadLeg}

MatchOutcomePrices ==
    {PriceArray(<<y, n>>) : y \in MatchLegs, n \in MatchLegs}
        \cup {PriceArray(<<Leg(40)>>),
              PriceArray(<<Leg(40), Leg(50), Leg(10)>>),
              [kind |-> "nonarray", legs |-> <<>>],
              [kind |-> "unparseable", legs |-> <<>>],
              [kind |-> "missing", legs |-> <<>>]}

MatchYesBids == {YesBid(c) : c \in MatchCents \cup {120}} \cup {NoYesBid}

TitleBtcEthUp == <<"b","t","c"," ","e","t","h"," ","u","p">>

MatchOf(outcomePrices, yes_bid) ==
    [polymarket |->
        [title |-> StringTitle(TitleBtcEthUp), type |-> "crypto",
         market |-> [question |-> StringTitle(TitleBtcEthUp),
                     outcomePrices |-> outcomePrices,
                     volume24hr |-> 5000]],
     kalshi |->
        [title |-> StringTitle(TitleBtcEthUp), type |-> "crypto",
         market |-> [title |-> StringTitle(TitleBtcEthUp),
                     yes_bid |-> yes_bid,
                     dollar_recent_volume |-> 0]],
     source |-> "algorithm"]

InitForMatch ==
    /\ fmMatch \in {MatchOf(op, yb) : op \in MatchOutcomePrices, yb \in MatchYesBids}
    /\ fmOut = Null
    /\ fmDone = FALSE
    /\ EvalIdle
    /\ MtIdle
    /\ CycleIdle

ForMatch ==
    /\ ~fmDone
    /\ fmOut' = calculateArbitrageForMatch(fmMatch)
    /\ fmDone' = TRUE
    /\ UNCHANGED <<fmMatch, evalVars, mtVars, cycleVars>>

SpecForMatch == InitForMatch /\ [][ForMatch]_vars

(***************************************************************************)
(* SpecMatcher: compareMarkets applied to two titles, in both orders       *)
(***************************************************************************)
MaxWords == 3

Vocabulary ==
    {<<"b","t","c">>, <<"e","t","h">>, <<"u","p">>,
     <<"w","i","l","l">>, <<"w","i","n">>}

\* titles of at most MaxWords words of the vocabulary, joined by spaces
MatcherTitles ==
    UNION {{JoinSpace(ws) : ws \in [1..n -> Vocabulary]} : n \in 0..MaxWords}

InitMatcher ==
    /\ mtTitle1 \in MatcherTitles
    /\ mtTitle2 \in MatcherTitles
    /\ mtAB = NoComparison
    /\ mtBA = NoComparison
    /\ EvalIdle
    /\ FmIdle
    /\ CycleIdle

Compared(result) ==
    [isMatch |-> result.isMatch, confidence |-> result.confidence,
     commonKeywords |-> result.commonKeywords, sameType |-> result.sameType,
     done |-> TRUE]

CompareAB ==
    /\ ~mtAB.done
    /\ mtAB' = Compared(compareMarkets([title |-> StringTitle(mtTitle1)], [title |-> StringTitle(mtTitle2)]))
    /\ UNCHANGED <<mtTitle1, mtTitle2, mtBA, evalVars, fmVars, cycleVars>>

CompareBA ==
    /\ ~mtBA.done
    /\ mtBA' = Compared(compareMarkets([title |-> StringTitle(mtTitle2)], [title |-> StringTitle(mtTitle1)]))
    /\ UNCHANGED <<mtTitle1, mtTitle2, mtAB, evalVars, fmVars, cycleVars>>

NextMatcher == CompareAB \/ CompareBA

SpecMatcher == InitMatcher /\ [][NextMatcher]_vars

(***************************************************************************)
(* Spec: one request cycle of GET /api/arbitrage.  The providers answer    *)
(* each page request with a page of the catalogue below, an empty page or  *)
(* an error; each enrichment call returns text or fails.                   *)
(***************************************************************************)
MaxPages == 2

TitleBtcEthUpShout == <<" ","B","T","C"," ","E","T","H"," ","U","P">>

TitleBtcEthTop == <<"b","t","c"," ","e","t","h"," ","t","o","p">>

PolyMarket(question, outcomePrices, volume24hr) ==
    [question |-> question, outcomePrices |-> outcomePrices, volume24hr |-> volume24hr]

KalshiMarket(title, yes_bid) ==
    [title |-> title, yes_bid |-> yes_bid, dollar_recent_volume |-> 0]

KalshiEvent(markets) == [hasMarkets |-> TRUE, markets |-> markets]

\* the markets Polymarket may list, one per page
PolyCatalogue ==
    {PolyMarket(StringTitle(TitleBtcEthUp), PriceArray(<<Leg(40), Leg(60)>>), 5000),
     PolyMarket(StringTitle(TitleBtcEthUpShout), PriceArray(<<Leg(30), Leg(70)>>), 5000),
     PolyMarket(StringTitle(TitleBtcEthTop), PriceArray(<<Leg(40), Leg(60)>>), 5000),
     PolyMarket(StringTitle(TitleBtcEthUp), [kind |-> "unparseable", legs |-> <<>>], 5000),
     PolyMarket(UndefinedTitle, PriceArray(<<Leg(40), Leg(60)>>), 5000),
     PolyMarket(StringTitle(TitleBtcEthTop), PriceArray(<<Leg(30), Leg(70)>>), 500)}

\* the events Kalshi may list, one per page
KalshiCatalogue ==
    {KalshiEvent(<<KalshiMarket(StringTitle(TitleBtcEthUp), YesBid(50)),
                   KalshiMarket(StringTitle(TitleBtcEthUp), YesBid(45))>>),
     KalshiEvent(<<KalshiMarket(UndefinedTitle, YesBid(50))>>),
     KalshiEvent(<<KalshiMarket(StringTitle(TitleBtcEthUp), NoYesBid)>>)}

Init ==
    /\ pc = "fetching"
    /\ polyFetch = FetchStart
    /\ kalshiFetch = FetchStart
    /\ matches = <<>>
    /\ opps = <<>>
    /\ enrich = <<>>
    /\ response = NoResponse
    /\ EvalIdle
    /\ FmIdle
    /\ MtIdle

\* Polymarket answers a page request with one more market
PolyFetchPage ==
    /\ pc = "fetching"
    /\ polyFetch.running
    /\ polyFetch.at < MaxPages * limit
    /\ \E market \in PolyCatalogue : polyFetch' = PolyPage(polyFetch, <<market>>)
    /\ UNCHANGED <<pc, kalshiFetch, matches, opps, enrich, response, evalVars, fmVars, mtVars>>

\* Polymarket has no more markets
PolyFetchEnd ==
    /\ pc = "fetching"
    /\ polyFetch.running
    /\ polyFetch' = PolyPage(polyFetch, <<>>)
    /\ UNCHANGED <<pc, kalshiFetch, matches, opps, enrich, response, evalVars, fmVars, mtVars>>

\* the request fails or the answer is not ok
PolyFetchError ==
    /\ pc = "fetching"
    /\ polyFetch.running
    /\ polyFetch' = FetchError(polyFetch)
    /\ UNCHANGED <<pc, kalshiFetch, matches, opps, enrich, response, evalVars, fmVars, mtVars>>

KalshiFetchPage ==
    /\ pc = "fetching"
    /\ kalshiFetch.running
    /\ kalshiFetch.at < MaxPages
    /\ \E event \in KalshiCatalogue : kalshiFetch' = KalshiPage(kalshiFetch, <<event>>)
    /\ UNCHANGED <<pc, polyFetch, matches, opps, enrich, response, evalVars, fmVars, mtVars>>

KalshiFetchEnd ==
    /\ pc = "fetching"
    /\ kalshiFetch.running
    /\ kalshiFetch' = KalshiPage(kalshiFetch, <<>>)
    /\ UNCHANGED <<pc, polyFetch, matches, opps, enrich, response, evalVars, fmVars, mtVars>>

KalshiFetchError ==
    /\ pc = "fetching"
    /\ kalshiFetch.running
    /\ kalshiFetch' = FetchError(kalshiFetch)
    /\ UNCHANGED <<pc, polyFetch, matches, opps, enrich, response, evalVars, fmVars, mtVars>>

\* Promise.all of the two fetches has resolved: the handler builds the
\* markets, matches them, evaluates every match and starts the enrichment
\* call of every opportunity; a TypeError on the way is answered with 500
MatchAndEvaluate ==
    /\ pc = "fetching"
    /\ ~polyFetch.running
    /\ ~kalshiFetch.running
    /\ \E ev \in {Evaluated(polyFetch.all, kalshiFetch.all)} :
           IF ev.threw
           THEN /\ pc' = "responded"
                /\ response' = [sent |-> TRUE, status |-> 500, body |-> <<>>]
                /\ UNCHANGED <<matches, opps, enrich>>
           ELSE /\ pc' = "enriching"
                /\ matches' = ev.matches
                /\ opps' = ev.opps
                /\ enrich' = [i \in 1..Len(ev.opps) |->
                                 IF ev.opps[i] = Null THEN "none" ELSE "pending"]
                /\ UNCHANGED response
    /\ UNCHANGED <<polyFetch, kalshiFetch, evalVars, fmVars, mtVars>>

\* one getPerplexityAnalysis call returns: the text, or null after its catch
EnrichmentReturns ==
    /\ pc = "enriching"
    /\ \E i \in DOMAIN enrich :
        /\ enrich[i] = "pending"
        /\ \E analysis \in {"text", "null"} :
               opps' = [opps EXCEPT ![i] = Some([opps[i][1] EXCEPT !.analysis = analysis])]
        /\ enrich' = [enrich EXCEPT ![i] = "done"]
    /\ UNCHANGED <<pc, polyFetch, kalshiFetch, matches, response, evalVars, fmVars, mtVars>>

\* Promise.all of the slots has resolved: filter, dedupe, sort, respond
Aggregate ==
    /\ pc = "enriching"
    /\ \A i \in DOMAIN enrich : enrich[i] # "pending"
    /\ pc' = "responded"
    /\ response' = [sent |-> TRUE, status |-> 200, body |-> Aggregated(opps)]
    /\ UNCHANGED <<polyFetch, kalshiFetch, matches, opps, enrich, evalVars, fmVars, mtVars>>

Next ==
    \/ PolyFetchPage
    \/ PolyFetchEnd
    \/ PolyFetchError
    \/ KalshiFetchPage
    \/ KalshiFetchEnd
    \/ KalshiFetchError
    \/ MatchAndEvaluate
    \/ EnrichmentReturns
    \/ Aggregate

Spec == Init /\ [][Next]_vars

(***************************************************************************)
(* Properties of calculateArbitrage (SpecEval)                             *)
(***************************************************************************)
IsCentPrice(p) == ~p.nan /\ p.c \in 0..100 /\ p = FromCents(p.c)

\* an argument inside the documented precondition: two legs, each a finite
\* price in [0,1]
ValidPair(arg) ==
    /\ arg.isArray
    /\ Len(arg.items) = 2
    /\ IsCentPrice(arg.items[1])
    /\ IsCentPrice(arg.items[2])

BothEvaluated == evOut # Pending /\ evSwap # Pending

\* the two margins in exact cents: 100 * (1 - (yesA + noB)) and
\* 100 * (1 - (noA + yesB))
Margin1Cents == 100 - (evPoly.items[1].c + evKalshi.items[2].c)

Margin2Cents == 100 - (evPoly.items[2].c + evKalshi.items[1].c)

Opposite(strategy) == IF strategy = BuyYesPoly THEN BuyNoPoly ELSE BuyYesPoly

\* C2 as stated: swapping the platforms keeps acceptance and margin and
\* always reports the opposite strategy, equal margins included
C2_AsStated ==
    (BothEvaluated /\ ValidPair(evPoly) /\ ValidPair(evKalshi)) =>
        /\ evSwap.hasArbitrage = evOut.hasArbitrage
        /\ FEq(evSwap.amount, evOut.amount)
        /\ evSwap.strategy = Opposite(evOut.strategy)

\* C2 amended: swapping the platforms keeps acceptance and margin; the
\* strategy is the opposite one whenever the two margins differ, and when the
\* two computed margins are equal both orders report buying Yes on Polymarket
C2_SwapSymmetry ==
    (BothEvaluated /\ ValidPair(evPoly) /\ ValidPair(evKalshi)) =>
        /\ evSwap.hasArbitrage = evOut.hasArbitrage
        /\ FEq(evSwap.amount, evOut.amount)
        /\ Margin1Cents # Margin2Cents => evSwap.strategy = Opposite(evOut.strategy)
        /\ FEq(Arbitrage1(evPoly.items[1], evKalshi.items[2]),
               Arbitrage2(evPoly.items[2], evKalshi.items[1]))
             => (evOut.strategy = BuyYesPoly /\ evSwap.strategy = BuyYesPoly)

\* C2 witnessed: an accepted pair with equal margins, evaluated in both
\* orders
C2_Witness ==
    /\ BothEvaluated
    /\ ValidPair(evPoly)
    /\ ValidPair(evKalshi)
    /\ evOut.hasArbitrage
    /\ evSwap.hasArbitrage
    /\ Margin1Cents = Margin2Cents
    /\ evOut.strategy = evSwap.strategy

\* C3 as stated: the evaluation throws exactly when an argument is outside
\* the precondition (not two legs, or a price that is not a finite number in
\* [0,1]), and such an argument is never accepted
C3_AsStated ==
    evOut # Pending =>
        /\ evOut.threw <=> ~(ValidPair(evPoly) /\ ValidPair(evKalshi))
        /\ evOut.hasArbitrage => (ValidPair(evPoly) /\ ValidPair(evKalshi))

\* C10 as stated: an accepted evaluation reports buying Yes on Polymarket
\* exactly when margin1 >= margin2, and its margin is that strategy's margin
C10_AsStated ==
    (evOut # Pending /\ evOut.hasArbitrage) =>
        /\ evOut.strategy = (IF Margin1Cents >= Margin2Cents THEN BuyYesPoly ELSE BuyNoPoly)
        /\ evOut.strategy = BuyYesPoly =>
               FEq(evOut.amount, Arbitrage1(evPoly.items[1], evKalshi.items[2]))
        /\ evOut.strategy = BuyNoPoly =>
               FEq(evOut.amount, Arbitrage2(evPoly.items[2], evKalshi.items[1]))

(***************************************************************************)
(* Properties of calculateArbitrageForMatch (SpecForMatch)                 *)
(***************************************************************************)
IsCentLeg(leg) == leg.ok /\ leg.cents \in 0..100

\* a match whose four prices are whole cents in [0,1]
ValidMatchPrices ==
    /\ fmMatch.polymarket.market.outcomePrices.kind = "array"
    /\ Len(fmMatch.polymarket.market.outcomePrices.legs) = 2
    /\ IsCentLeg(fmMatch.polymarket.market.outcomePrices.legs[1])
    /\ IsCentLeg(fmMatch.polymarket.market.outcomePrices.legs[2])
    /\ fmMatch.kalshi.market.yes_bid.defined
    /\ fmMatch.kalshi.market.yes_bid.v \in 0..100

\* best = max(1 - (yesA + noB), 1 - (noA + yesB)) in exact cents
BestCents ==
    Max2(100 - (fmMatch.polymarket.market.outcomePrices.legs[1].cents
                    + (100 - fmMatch.kalshi.market.yes_bid.v)),
         100 - (fmMatch.polymarket.market.outcomePrices.legs[2].cents
                    + fmMatch.kalshi.market.yes_bid.v))

\* C1 as stated: on cent prices in [0,1] a result is emitted exactly when
\* 0.01 < best < 0.50, a best margin of exactly 0.01 or 0.50 gives null, and
\* every emitted potentialProfit / 100 lies strictly inside the band
C1_AsStated ==
    (fmDone /\ ValidMatchPrices) =>
        /\ fmOut # Null <=> (1 < BestCents /\ BestCents < 50)
        /\ fmOut # Null =>
               /\ FGreater(fmOut[1].potentialProfit, FromCents(100))
               /\ FLess(fmOut[1].potentialProfit, FromCents(5000))

(***************************************************************************)
(* Properties of compareMarkets (SpecMatcher)                              *)
(***************************************************************************)
Range(s) == {s[i] : i \in DOMAIN s}

KeywordSet(title) == Range(extractKeywords(toLowerCase(title)))

\* C9 as stated: the common-keyword count is the size of the intersection of
\* the two keyword sets, it is the same in both orders, and a match shares at
\* least MIN_COMMON_KEYWORDS distinct keywords
C9_AsStated ==
    (mtAB.done /\ mtBA.done /\ mtAB.sameType) =>
        /\ Len(mtAB.commonKeywords)
             = Cardinality(KeywordSet(mtTitle1) \cap KeywordSet(mtTitle2))
        /\ Len(mtAB.commonKeywords) = Len(mtBA.commonKeywords)
        /\ mtAB.isMatch => Cardinality(Range(mtAB.commonKeywords)) >= MIN_COMMON_KEYWORDS

(***************************************************************************)
(* Properties of the request cycle (Spec)                                  *)
(***************************************************************************)
Succeeded == response.sent /\ response.status = 200

Filled == {k \in DOMAIN opps : opps[k] # Null}

\* the first filled slot whose opportunity has this normalized title
FirstSlot(title) == SetMin({k \in Filled : NormalizedTitle(opps[k][1]) = title})

IsFirst(k) == FirstSlot(NormalizedTitle(opps[k][1])) = k

\* C5: the response holds no two opportunities with the same normalized
\* Polymarket title, and it holds exactly the first evaluated opportunity of
\* every normalized title, whatever the margins of the later ones
C5_DedupeKeepsFirst ==
    Succeeded =>
        /\ \A i, j \in DOMAIN response.body :
               i # j => NormalizedTitle(response.body[i]) # NormalizedTitle(response.body[j])
        /\ \A k \in Filled :
               IsFirst(k) <=> (\E i \in DOMAIN response.body : response.body[i] = opps[k][1])
        /\ \A i \in DOMAIN response.body :
               \E k \in Filled : IsFirst(k) /\ response.body[i] = opps[k][1]

\* C5 witnessed: a later opportunity with the title of an earlier one and a
\* larger margin was dropped and the earlier one delivered
C5_Witness ==
    /\ Succeeded
    /\ \E k, l \in Filled :
           /\ k < l
           /\ IsFirst(k)
           /\ NormalizedTitle(opps[l][1]) = NormalizedTitle(opps[k][1])
           /\ opps[l][1].polymarket.title # opps[k][1].polymarket.title
           /\ FGreater(opps[l][1].potentialProfit, opps[k][1].potentialProfit)
           /\ \E i \in DOMAIN response.body : response.body[i] = opps[k][1]
           /\ \A i \in DOMAIN response.body : response.body[i] # opps[l][1]

Rewrapped(body) == [i \in 1..Len(body) |-> Some(body[i])]

\* C6: the response is ordered by non-increasing potentialProfit,
\* opportunities of equal potentialProfit keep the order of their slots, and
\* aggregating the same slots again, or the response itself, gives the same
\* sequence
C6_SortedStable ==
    Succeeded =>
        /\ \A i, j \in DOMAIN response.body :
               i < j => ~FLess(response.body[i].potentialProfit,
                               response.body[j].potentialProfit)
        /\ \A i, j \in DOMAIN response.body :
               (i < j /\ FEq(response.body[i].potentialProfit,
                             response.body[j].potentialProfit))
                 => FirstSlot(NormalizedTitle(response.body[i]))
                      < FirstSlot(NormalizedTitle(response.body[j]))
        /\ Aggregated(opps) = response.body
        /\ Aggregated(Rewrapped(response.body)) = response.body

\* C6 witnessed: the sort moved an opportunity of a later slot, with the
\* larger margin, in front of one of an earlier slot
C6_Witness ==
    /\ Succeeded
    /\ \E i, j \in DOMAIN response.body :
           /\ i < j
           /\ FGreater(response.body[i].potentialProfit,
                       response.body[j].potentialProfit)
           /\ FirstSlot(NormalizedTitle(response.body[i]))
                > FirstSlot(NormalizedTitle(response.body[j]))

WellFormedEvent(event) ==
    \A i \in DOMAIN event.markets : event.markets[i].title.kind = "string"

WithoutAnalysis(list) == [i \in 1..Len(list) |-> [list[i] EXCEPT !.analysis = "unset"]]

\* C4 as stated: every cycle ends in a success response, and the response
\* holds the opportunities of the listings that are well formed
C4_AsStated ==
    response.sent =>
        /\ response.status = 200
        /\ WithoutAnalysis(response.body)
             = WithoutAnalysis(Aggregated(
                   Evaluated(polyFetch.all,
                             SelectSeq(kalshiFetch.all, WellFormedEvent)).opps))

\* C7 as stated: once the opportunities are evaluated the response can be
\* sent whatever the enrichment calls have done, and an analysis is attached
\* only after the response's list is final
C7_AsStated ==
    /\ pc = "enriching" => ENABLED Aggregate
    /\ \A k \in Filled : opps[k][1].analysis # "unset" => response.sent

\* C8 as stated: nothing is matched before both fetches have ended, a source
\* whose fetch failed contributes no listing, and a cycle in which one fetch
\* failed is answered with success
C8_AsStated ==
    /\ pc # "fetching" => (~polyFetch.running /\ ~kalshiFetch.running)
    /\ (polyFetch.failed # "no" /\ kalshiFetch.failed = "no") => polyFetch.all = <<>>
    /\ (kalshiFetch.failed # "no" /\ polyFetch.failed = "no") => kalshiFetch.all = <<>>
    /\ (response.sent /\ (polyFetch.failed = "no") # (kalshiFetch.failed = "no"))
         => response.status = 200

====
